---- MODULE Spec2Model ----
(***************************************************************************)
(* A model of src/app.ts: the task list (tasks, nextId), the localStorage  *)
(* slot 'tasks', the text input and the rendered <ul>, with the handlers   *)
(* addTask, toggleTask, deleteTask and the page load (loadTasks).          *)
(*                                                                         *)
(* A JavaScript string is a sequence of one-character strings, so that     *)
(* trim, JSON.stringify and JSON.parse are computed character by           *)
(* character.                                                              *)
(***************************************************************************)
EXTENDS Integers, Sequences, FiniteSets, TLC

VARIABLES
    tasks,          \* let tasks: Task[]
    nextId,         \* let nextId: number
    localStorage,   \* the slot localStorage['tasks']: [present, value]
    taskInput,      \* taskInput.value
    taskList,       \* the <li> rows of the <ul id="taskList">
    last,           \* history: the operation that ran last, and the store before it
    again,          \* history: the last operation repeated the one before it
    session,        \* history: the greatest id the page load found, the ids assigned since
    tasksIsArray,   \* tasks holds an array (FALSE: it holds null, and tasks is not read)
    tabs,           \* two more tabs on the same slot, each with its own tasks,
                    \* nextId, taskInput and taskList
    trace           \* history: the page that ran last, the page that wrote the slot
                    \* last, and whether the last handler ended in an uncaught error

vars == <<tasks, nextId, localStorage, taskInput, taskList, last, again, session,
          tasksIsArray, tabs, trace>>

(***************************************************************************)
(* Bounds of the model.                                                    *)
(***************************************************************************)
\* addTask is offered while nextId <= MaxNextId.
MaxNextId == 3

\* With two tabs open, each tab's addTask is offered while its nextId <= MaxTabNextId.
MaxTabNextId == 2

(***************************************************************************)
(* Characters and strings.                                                 *)
(***************************************************************************)
QUOTE == "\""
BSLASH == "\\"
TAB == "\t"
SPACE == " "

\* The white space String.prototype.trim strips, as far as the input values
\* of the model contain it.
WhiteSpace == {SPACE, TAB, "\n"}

\* The values the user types into the text input before pressing "add".
InputValues ==
    { <<>>,
      <<SPACE, TAB, SPACE>>,
      <<SPACE, "a", SPACE, TAB, QUOTE, BSLASH, TAB>> }

\* trimEnd() in the place of trim(): leading white space stays.
TrimStart_None(s) == s

RECURSIVE TrimStart(_)
TrimStart(s) ==
    IF s # <<>> /\ Head(s) \in WhiteSpace THEN TrimStart(Tail(s)) ELSE s

\* trimStart() in the place of trim(): trailing white space stays.
TrimEnd_None(s) == s

RECURSIVE TrimEnd(_)
TrimEnd(s) ==
    IF s # <<>> /\ s[Len(s)] \in WhiteSpace
    THEN TrimEnd(SubSeq(s, 1, Len(s) - 1))
    ELSE s

\* A trim that strips nothing.
Trim_None(s) == s

\* String.prototype.trim
Trim(s) == TrimEnd(TrimStart(s))

(***************************************************************************)
(* JSON.stringify of a Task[].                                             *)
(***************************************************************************)
DigitChars == <<"0", "1", "2", "3", "4", "5", "6", "7", "8", "9">>

RECURSIVE StringifyNumber(_)
StringifyNumber(n) ==
    IF n < 10
    THEN <<DigitChars[n + 1]>>
    ELSE StringifyNumber(n \div 10) \o <<DigitChars[(n % 10) + 1]>>

\* No character is escaped.
EscapeChar_None(c) == <<c>>

EscapeChar(c) ==
    CASE c = QUOTE  -> <<BSLASH, QUOTE>>
      [] c = BSLASH -> <<BSLASH, BSLASH>>
      [] c = "\n"   -> <<BSLASH, "n">>
      [] c = TAB    -> <<BSLASH, "t">>
      [] OTHER      -> <<c>>

RECURSIVE EscapeChars(_)
EscapeChars(s) ==
    IF s = <<>> THEN <<>> ELSE EscapeChar(Head(s)) \o EscapeChars(Tail(s))

StringifyString(s) == <<QUOTE>> \o EscapeChars(s) \o <<QUOTE>>

StringifyBoolean(b) ==
    IF b THEN <<"t", "r", "u", "e">> ELSE <<"f", "a", "l", "s", "e">>

KeyId == <<QUOTE, "i", "d", QUOTE, ":">>
KeyText == <<QUOTE, "t", "e", "x", "t", QUOTE, ":">>
KeyCompleted == <<QUOTE, "c", "o", "m", "p", "l", "e", "t", "e", "d", QUOTE, ":">>

\* One Task object, its properties in creation order (id, text, completed).
StringifyTask(t) ==
    <<"{">> \o KeyId \o StringifyNumber(t.id)
        \o <<",">> \o KeyText \o StringifyString(t.text)
        \o <<",">> \o KeyCompleted \o StringifyBoolean(t.completed)
        \o <<"}">>

RECURSIVE StringifyElements(_)
StringifyElements(ts) ==
    IF ts = <<>> THEN <<>>
    ELSE IF Len(ts) = 1 THEN StringifyTask(ts[1])
    ELSE StringifyTask(ts[1]) \o <<",">> \o StringifyElements(Tail(ts))

\* JSON.stringify(tasks)
JSONStringify(ts) == <<"[">> \o StringifyElements(ts) \o <<"]">>

(***************************************************************************)
(* JSON.parse of the text of a Task[]: a recursive descent over the        *)
(* characters. A result is [ok, value, pos]: ok = FALSE is the SyntaxError *)
(* JSON.parse throws, pos is the position after the value.                 *)
(***************************************************************************)
ParseFail == [ok |-> FALSE, value |-> <<>>, pos |-> 0]

HasPrefixAt(s, p, lit) ==
    /\ p + Len(lit) - 1 <= Len(s)
    /\ SubSeq(s, p, p + Len(lit) - 1) = lit

IsDigit(c) == \E d \in 1..Len(DigitChars) : DigitChars[d] = c

DigitValue(c) == (CHOOSE d \in 1..Len(DigitChars) : DigitChars[d] = c) - 1

\* The position after the digits that start at p.
RECURSIVE DigitsEnd(_, _)
DigitsEnd(s, p) ==
    IF p <= Len(s) /\ IsDigit(s[p]) THEN DigitsEnd(s, p + 1) ELSE p

RECURSIVE NumberValue(_, _, _)
NumberValue(s, from, to) ==
    IF to < from THEN 0
    ELSE 10 * NumberValue(s, from, to - 1) + DigitValue(s[to])

\* A JSON number, as far as ids need it: digits, no leading zero.
ParseNumberAt(s, p) ==
    LET e == DigitsEnd(s, p) IN
    IF e = p \/ (e > p + 1 /\ s[p] = "0")
    THEN ParseFail
    ELSE [ok |-> TRUE, value |-> NumberValue(s, p, e - 1), pos |-> e]

IsEscape(c) == c \in {QUOTE, BSLASH, "/", "n", "t"}

Unescape(c) ==
    CASE c = "n" -> "\n"
      [] c = "t" -> TAB
      [] OTHER   -> c

\* The characters of a JSON string up to its closing quote; p is inside it.
RECURSIVE ParseStringBody(_, _, _)
ParseStringBody(s, p, acc) ==
    IF p > Len(s) THEN ParseFail
    ELSE IF s[p] = QUOTE THEN [ok |-> TRUE, value |-> acc, pos |-> p + 1]
    ELSE IF s[p] = BSLASH
         THEN IF p + 1 <= Len(s) /\ IsEscape(s[p + 1])
              THEN ParseStringBody(s, p + 2, Append(acc, Unescape(s[p + 1])))
              ELSE ParseFail
    ELSE IF s[p] \in {TAB, "\n"} THEN ParseFail
    ELSE ParseStringBody(s, p + 1, Append(acc, s[p]))

ParseStringAt(s, p) ==
    IF p <= Len(s) /\ s[p] = QUOTE THEN ParseStringBody(s, p + 1, <<>>) ELSE ParseFail

ParseBooleanAt(s, p) ==
    IF HasPrefixAt(s, p, StringifyBoolean(TRUE))
    THEN [ok |-> TRUE, value |-> TRUE, pos |-> p + Len(StringifyBoolean(TRUE))]
    ELSE IF HasPrefixAt(s, p, StringifyBoolean(FALSE))
    THEN [ok |-> TRUE, value |-> FALSE, pos |-> p + Len(StringifyBoolean(FALSE))]
    ELSE ParseFail

\* One object {"id":n,"text":"...","completed":b} starting at p.
ParseTaskAt(s, p) ==
    IF ~HasPrefixAt(s, p, <<"{">> \o KeyId) THEN ParseFail
    ELSE LET n == ParseNumberAt(s, p + 1 + Len(KeyId)) IN
    IF ~n.ok \/ ~HasPrefixAt(s, n.pos, <<",">> \o KeyText) THEN ParseFail
    ELSE LET t == ParseStringAt(s, n.pos + 1 + Len(KeyText)) IN
    IF ~t.ok \/ ~HasPrefixAt(s, t.pos, <<",">> \o KeyCompleted) THEN ParseFail
    ELSE LET c == ParseBooleanAt(s, t.pos + 1 + Len(KeyCompleted)) IN
    IF ~c.ok \/ ~HasPrefixAt(s, c.pos, <<"}">>) THEN ParseFail
    ELSE [ok |-> TRUE,
          value |-> [id |-> n.value, text |-> t.value, completed |-> c.value],
          pos |-> c.pos + 1]

\* The elements of the array from p to the closing bracket, which ends the text.
RECURSIVE ParseElements(_, _, _)
ParseElements(s, p, acc) ==
    LET t == ParseTaskAt(s, p) IN
    IF ~t.ok \/ t.pos > Len(s) THEN ParseFail
    ELSE IF s[t.pos] = "," THEN ParseElements(s, t.pos + 1, Append(acc, t.value))
    ELSE IF s[t.pos] = "]" /\ t.pos = Len(s)
         THEN [ok |-> TRUE, value |-> Append(acc, t.value), pos |-> t.pos + 1]
    ELSE ParseFail

\* JSON.parse(savedTasks)
JSONParse(s) ==
    IF s = <<"[", "]">> THEN [ok |-> TRUE, value |-> <<>>, pos |-> Len(s) + 1]
    ELSE IF s # <<>> /\ s[1] = "[" THEN ParseElements(s, 2, <<>>)
    ELSE ParseFail

(***************************************************************************)
(* The store, the slot and the rendered list.                              *)
(***************************************************************************)
\* getItem('tasks') of a slot that was never written is null.
AbsentSlot == [present |-> FALSE, value |-> <<>>]

\* if (savedTasks): null and the empty string are falsy.
Truthy(slot) == slot.present /\ slot.value # <<>>

\* The array is saved as it was before the handler changed it.
SaveTasks_Stale(ts) == [present |-> TRUE, value |-> JSONStringify(tasks)]

\* localStorage.setItem('tasks', JSON.stringify(tasks))
SaveTasks(ts) == [present |-> TRUE, value |-> JSONStringify(ts)]

\* checkbox.checked is never set.
RenderTasks_Unchecked(ts) ==
    [i \in 1..Len(ts) |->
        [completedClass |-> ts[i].completed,
         checked        |-> FALSE,
         text           |-> ts[i].text,
         toggleId       |-> ts[i].id,
         deleteId       |-> ts[i].id]]

\* The list is drawn from the array as it was before the handler changed it.
RenderTasks_Stale(ts) ==
    [i \in 1..Len(tasks) |->
        [completedClass |-> tasks[i].completed,
         checked        |-> tasks[i].completed,
         text           |-> tasks[i].text,
         toggleId       |-> tasks[i].id,
         deleteId       |-> tasks[i].id]]

\* One <li> per task: the class, the checkbox, the span and the ids the two
\* click listeners pass on.
RenderTasks(ts) ==
    [i \in 1..Len(ts) |->
        [completedClass |-> ts[i].completed,
         checked        |-> ts[i].completed,
         text           |-> ts[i].text,
         toggleId       |-> ts[i].id,
         deleteId       |-> ts[i].id]]

RECURSIVE MaxOf(_)
MaxOf(S) ==
    LET x == CHOOSE y \in S : TRUE IN
    IF S = {x} THEN x
    ELSE LET m == MaxOf(S \ {x}) IN IF x > m THEN x ELSE m

IdsOf(ts) == {ts[i].id : i \in 1..Len(ts)}

\* nextId from the number of tasks.
LoadedNextId_Count(ts) == Len(ts) + 1

\* nextId is the greatest id, not the one after it.
LoadedNextId_NoIncrement(ts) == IF Len(ts) > 0 THEN MaxOf(IdsOf(ts)) ELSE 1

\* nextId from the first task, not from the greatest id.
LoadedNextId_First(ts) == IF Len(ts) > 0 THEN ts[1].id + 1 ELSE 1

\* if (tasks.length > 0) nextId = Math.max(...tasks.map(t => t.id)) + 1,
\* over nextId = 1 of a fresh page.
LoadedNextId(ts) == IF Len(ts) > 0 THEN MaxOf(IdsOf(ts)) + 1 ELSE 1

\* JSON.parse of this text is null, which JSONParse (arrays only) does not cover.
IsNullText(s) == s = <<"n", "u", "l", "l">>

\* The store and the list loadTasks leaves on a fresh page: nothing happens on
\* a falsy slot, and a SyntaxError of JSON.parse ends it before any assignment.
\* On the text null, tasks = null is assigned and tasks.length then throws a
\* TypeError, before nextId is set and before renderTasks().
LoadTasks(slot) ==
    LET parsed == JSONParse(slot.value) IN
    IF Truthy(slot) /\ IsNullText(slot.value)
    THEN [tasks |-> <<>>, isArray |-> FALSE, nextId |-> 1, taskList |-> <<>>,
          threw |-> TRUE]
    ELSE IF Truthy(slot) /\ parsed.ok
    THEN [tasks    |-> parsed.value,
          isArray  |-> TRUE,
          nextId   |-> LoadedNextId(parsed.value),
          taskList |-> RenderTasks(parsed.value),
          threw    |-> FALSE]
    ELSE [tasks |-> <<>>, isArray |-> TRUE, nextId |-> 1, taskList |-> <<>>,
          threw |-> Truthy(slot)]

\* The id is taken from the length of the array.
NewTask_IdFromLength(text) == [id |-> Len(tasks) + 1, text |-> text, completed |-> FALSE]

\* { id: nextId++, text: text, completed: false }
NewTask(text) == [id |-> nextId, text |-> text, completed |-> FALSE]

\* The id is used as the position in the array.
FindIndex_IdAsIndex(ts, id) == IF id <= Len(ts) THEN id ELSE 0

\* tasks.find(t => t.id === id): the index of the first match, 0 for undefined.
FindIndex(ts, id) ==
    IF \E i \in 1..Len(ts) : ts[i].id = id
    THEN CHOOSE i \in 1..Len(ts) :
            /\ ts[i].id = id
            /\ \A j \in 1..(i - 1) : ts[j].id # id
    ELSE 0

\* The flag is set, not flipped.
Toggled_Set(ts, i) == [ts EXCEPT ![i].completed = TRUE]

\* task.completed = !task.completed on the task at index i.
Toggled(ts, i) == [ts EXCEPT ![i].completed = ~ts[i].completed]

\* The id is used as a position: tasks.splice(id - 1, 1).
Filtered_Splice(ts, id) ==
    [i \in 1..(Len(ts) - (IF id <= Len(ts) THEN 1 ELSE 0)) |->
        IF i < id THEN ts[i] ELSE ts[i + 1]]

\* The test of the filter is inverted.
Filtered_Inverted(ts, id) == SelectSeq(ts, LAMBDA t : t.id = id)

\* tasks.filter(t => t.id !== id)
Filtered(ts, id) == SelectSeq(ts, LAMBDA t : t.id # id)

(***************************************************************************)
(* History: what ran last and before it, for the statements about one or   *)
(* two operations.                                                         *)
(***************************************************************************)
Snapshot == [tasks |-> tasks, nextId |-> nextId, localStorage |-> localStorage]

Label(r) == [op |-> r.op, id |-> r.id]

Record(op, id, input, alerted) ==
    /\ last' = [op |-> op, id |-> id, input |-> input, alerted |-> alerted,
                before |-> Snapshot]
    /\ again' = (Label(last) = [op |-> op, id |-> id])

\* The page ran a handler: the script state of the tabs is not touched.
Ran(wrote, threw) ==
    /\ trace' = [actor  |-> "page",
                 writer |-> IF wrote THEN "page" ELSE trace.writer,
                 threw  |-> threw]
    /\ tabs' = tabs

TabIds == {"A", "B"}

\* A page that was loaded while the slot was absent.
FreshPage == [tasks |-> <<>>, nextId |-> 1, taskInput |-> <<>>, taskList |-> <<>>]

(***************************************************************************)
(* The page and its handlers.                                              *)
(***************************************************************************)
Init ==
    /\ localStorage = AbsentSlot
    /\ tasks = LoadTasks(localStorage).tasks
    /\ nextId = LoadTasks(localStorage).nextId
    /\ taskList = LoadTasks(localStorage).taskList
    /\ taskInput = <<>>
    /\ last = [op |-> "load", id |-> 0, input |-> <<>>, alerted |-> FALSE,
               before |-> [tasks |-> <<>>, nextId |-> 1, localStorage |-> AbsentSlot]]
    /\ again = FALSE
    /\ session = [loadedMax |-> 0, assigned |-> <<>>]
    /\ tasksIsArray = LoadTasks(localStorage).isArray
    /\ tabs = [t \in TabIds |-> FreshPage]
    /\ trace = [actor |-> "page", writer |-> "none", threw |-> FALSE]

\* The page is loaded again: the script runs from its top and ends in loadTasks().
LoadPage ==
    LET loaded == LoadTasks(localStorage) IN
    /\ tasks' = loaded.tasks
    /\ nextId' = loaded.nextId
    /\ taskList' = loaded.taskList
    /\ taskInput' = <<>>
    /\ session' = [loadedMax |-> IF loaded.tasks = <<>> THEN 0 ELSE MaxOf(IdsOf(loaded.tasks)),
                   assigned |-> <<>>]
    /\ tasksIsArray' = loaded.isArray
    /\ Record("load", 0, <<>>, FALSE)
    /\ Ran(FALSE, loaded.threw)
    /\ UNCHANGED localStorage

\* The user has typed v and clicks "add" or presses Enter.
AddTask ==
    \E v \in InputValues :
        LET text == Trim(v) IN
        IF text = <<>>
        THEN /\ taskInput' = v
             /\ Record("add", 0, v, TRUE)
             /\ Ran(FALSE, FALSE)
             /\ UNCHANGED <<tasks, nextId, localStorage, taskList, session, tasksIsArray>>
        ELSE /\ nextId <= MaxNextId
             /\ nextId' = nextId + 1
             /\ Record("add", NewTask(text).id, v, FALSE)
             /\ IF tasksIsArray
                THEN /\ tasks' = Append(tasks, NewTask(text))
                     /\ taskInput' = <<>>
                     /\ localStorage' = SaveTasks(tasks')
                     /\ taskList' = RenderTasks(tasks')
                     /\ session' = [session EXCEPT
                                        !.assigned = Append(@, NewTask(text).id)]
                     /\ Ran(TRUE, FALSE)
                \* tasks.push on null throws, after nextId++ in the object literal
                ELSE /\ taskInput' = v
                     /\ Ran(FALSE, TRUE)
                     /\ UNCHANGED <<tasks, localStorage, taskList, session>>
             /\ UNCHANGED tasksIsArray

ToggleTask(id) ==
    LET i == FindIndex(tasks, id) IN
    /\ IF ~tasksIsArray
       \* tasks.find on null throws
       THEN /\ Ran(FALSE, TRUE)
            /\ UNCHANGED <<tasks, localStorage, taskList>>
       ELSE IF i # 0
       THEN /\ tasks' = Toggled(tasks, i)
            /\ localStorage' = SaveTasks(tasks')
            /\ taskList' = RenderTasks(tasks')
            /\ Ran(TRUE, FALSE)
       ELSE /\ Ran(FALSE, FALSE)
            /\ UNCHANGED <<tasks, localStorage, taskList>>
    /\ Record("toggle", id, <<>>, FALSE)
    /\ UNCHANGED <<nextId, taskInput, session, tasksIsArray>>

\* deleteTask also sets nextId back to the greatest id left + 1.
DeleteTask_RecomputesNextId(id) ==
    /\ tasks' = Filtered(tasks, id)
    /\ nextId' = LoadedNextId(tasks')
    /\ localStorage' = SaveTasks(tasks')
    /\ taskList' = RenderTasks(tasks')
    /\ Ran(TRUE, FALSE)
    /\ Record("delete", id, <<>>, FALSE)
    /\ UNCHANGED <<taskInput, session, tasksIsArray>>

DeleteTask(id) ==
    /\ IF ~tasksIsArray
       \* tasks.filter on null throws
       THEN /\ Ran(FALSE, TRUE)
            /\ UNCHANGED <<tasks, localStorage, taskList>>
       ELSE /\ tasks' = Filtered(tasks, id)
            /\ localStorage' = SaveTasks(tasks')
            /\ taskList' = RenderTasks(tasks')
            /\ Ran(TRUE, FALSE)
    /\ Record("delete", id, <<>>, FALSE)
    /\ UNCHANGED <<nextId, taskInput, session, tasksIsArray>>

\* checkbox.addEventListener('click', () => toggleTask(task.id)) of row i
ClickCheckbox(i) == ToggleTask(taskList[i].toggleId)

\* deleteBtn.addEventListener('click', () => deleteTask(task.id)) of row i
ClickDelete(i) == DeleteTask(taskList[i].deleteId)

\* The page as its user drives it.
Next ==
    \/ AddTask
    \/ \E i \in DOMAIN taskList : ClickCheckbox(i)
    \/ \E i \in DOMAIN taskList : ClickDelete(i)
    \/ LoadPage

Spec == Init /\ [][Next]_vars

\* The handlers called with any id, in the store or not.
CallIds == 1..(MaxNextId + 1)

NextCalls ==
    \/ AddTask
    \/ \E id \in CallIds : ToggleTask(id)
    \/ \E id \in CallIds : DeleteTask(id)
    \/ LoadPage

SpecCalls == Init /\ [][NextCalls]_vars

(***************************************************************************)
(* Two tabs A and B on the one slot. Each tab runs its own copy of the      *)
(* script, so its handlers read and write its own tasks, nextId, taskInput  *)
(* and taskList, and the shared localStorage. The slot holds only what the  *)
(* two tabs save, so a tab's tasks is always an array.                      *)
(***************************************************************************)
\* Tab t ran a handler.
TabRan(t, wrote, threw) ==
    /\ trace' = [actor  |-> t,
                 writer |-> IF wrote THEN t ELSE trace.writer,
                 threw  |-> threw]
    /\ UNCHANGED <<tasks, nextId, taskInput, taskList, tasksIsArray,
                   last, again, session>>

\* saveTasks() is called before the handler changes the array.
TabCommit_SaveFirst(t, ts, next, input) ==
    /\ tabs' = [tabs EXCEPT ![t] = [tasks |-> ts, nextId |-> next, taskInput |-> input,
                                    taskList |-> RenderTasks(ts)]]
    /\ localStorage' = SaveTasks(tabs[t].tasks)
    /\ TabRan(t, TRUE, FALSE)

\* The tail of a handler in tab t: the changed array, saveTasks(), renderTasks().
TabCommit(t, ts, next, input) ==
    /\ tabs' = [tabs EXCEPT ![t] = [tasks |-> ts, nextId |-> next, taskInput |-> input,
                                    taskList |-> RenderTasks(ts)]]
    /\ localStorage' = SaveTasks(ts)
    /\ TabRan(t, TRUE, FALSE)

TabLoadPage(t) ==
    LET loaded == LoadTasks(localStorage) IN
    /\ tabs' = [tabs EXCEPT ![t] = [tasks |-> loaded.tasks, nextId |-> loaded.nextId,
                                    taskInput |-> <<>>, taskList |-> loaded.taskList]]
    /\ TabRan(t, FALSE, loaded.threw)
    /\ UNCHANGED localStorage

TabAddTask(t) ==
    \E v \in InputValues :
        LET text == Trim(v) IN
        IF text = <<>>
        THEN /\ tabs' = [tabs EXCEPT ![t].taskInput = v]
             /\ TabRan(t, FALSE, FALSE)
             /\ UNCHANGED localStorage
        ELSE /\ tabs[t].nextId <= MaxTabNextId
             /\ TabCommit(t,
                    Append(tabs[t].tasks,
                           [id |-> tabs[t].nextId, text |-> text, completed |-> FALSE]),
                    tabs[t].nextId + 1, <<>>)

TabToggleTask(t, id) ==
    LET i == FindIndex(tabs[t].tasks, id) IN
    IF i # 0
    THEN TabCommit(t, Toggled(tabs[t].tasks, i), tabs[t].nextId, tabs[t].taskInput)
    ELSE /\ TabRan(t, FALSE, FALSE)
         /\ UNCHANGED <<tabs, localStorage>>

TabDeleteTask(t, id) ==
    TabCommit(t, Filtered(tabs[t].tasks, id), tabs[t].nextId, tabs[t].taskInput)

TabClickCheckbox(t, i) == TabToggleTask(t, tabs[t].taskList[i].toggleId)

TabClickDelete(t, i) == TabDeleteTask(t, tabs[t].taskList[i].deleteId)

\* Both tabs as their users drive them, in any interleaving of whole handlers.
NextTabs ==
    \E t \in TabIds :
        \/ TabAddTask(t)
        \/ \E i \in DOMAIN tabs[t].taskList : TabClickCheckbox(t, i)
        \/ \E i \in DOMAIN tabs[t].taskList : TabClickDelete(t, i)
        \/ TabLoadPage(t)

SpecTabs == Init /\ [][NextTabs]_vars

(***************************************************************************)
(* The page loaded on any content of the slot.                             *)
(***************************************************************************)
\* Contents of the slot that the page did not write.
ForeignTexts ==
    { <<>>,
      <<"n", "u", "l", "l">>,
      <<"[", "{">>,
      <<"o", "o", "p", "s">> }

\* Contents of the slot that a page wrote.
SavedTexts ==
    { JSONStringify(<<>>),
      JSONStringify(<<[id |-> 2, text |-> <<"a">>, completed |-> TRUE]>>) }

InitAnySlot ==
    /\ localStorage \in
            {AbsentSlot} \cup {[present |-> TRUE, value |-> t] : t \in ForeignTexts \cup SavedTexts}
    /\ tasks = LoadTasks(localStorage).tasks
    /\ nextId = LoadTasks(localStorage).nextId
    /\ taskList = LoadTasks(localStorage).taskList
    /\ tasksIsArray = LoadTasks(localStorage).isArray
    /\ taskInput = <<>>
    /\ last = [op |-> "load", id |-> 0, input |-> <<>>, alerted |-> FALSE,
               before |-> [tasks |-> <<>>, nextId |-> 1, localStorage |-> localStorage]]
    /\ again = FALSE
    /\ session = [loadedMax |-> IF tasks = <<>> THEN 0 ELSE MaxOf(IdsOf(tasks)),
                  assigned |-> <<>>]
    /\ tabs = [t \in TabIds |-> FreshPage]
    /\ trace = [actor |-> "page", writer |-> "none",
                threw |-> LoadTasks(localStorage).threw]

SpecAnySlot == InitAnySlot /\ [][Next]_vars

(***************************************************************************)
(* The claims.                                                             *)
(***************************************************************************)
\* The last operation was addTask with text that is not empty after trimming.
Added == last.op = "add" /\ ~last.alerted

\* The last operation was toggleTask(last.id) with last.id in the store.
ToggledHit == last.op = "toggle" /\ FindIndex(last.before.tasks, last.id) # 0

\* C1: after addTask with non-empty text, toggleTask or deleteTask has
\* completed, the slot holds a text whose JSON.parse is the in-memory sequence:
\* the same items in the same order with the same id, text and completed.
C1_PersistedEqualsMemory ==
    (Added \/ last.op \in {"toggle", "delete"}) =>
        /\ localStorage.present
        /\ JSONParse(localStorage.value).ok
        /\ JSONParse(localStorage.value).value = tasks

C1_Witness ==
    /\ ToggledHit
    /\ Len(tasks) >= 2
    /\ \E i \in 1..Len(tasks) : tasks[i].completed
    /\ \E i \in 1..Len(tasks) : ~tasks[i].completed

\* C2: in every state reached from an absent slot by add, toggle, delete and
\* page load, the items of the in-memory sequence have pairwise distinct ids.
C2_UniqueIds ==
    \A i, j \in 1..Len(tasks) : i # j => tasks[i].id # tasks[j].id

\* An add after a page load that found tasks, one of them deleted since.
C2_Witness ==
    /\ Added
    /\ session.loadedMax > 0
    /\ Len(tasks) >= 2
    /\ \E k \in 1..session.loadedMax : k \notin IdsOf(tasks)

\* C3: in every reachable state nextId is strictly greater than the id of
\* every item in the in-memory sequence.
C3_NextIdAboveIds ==
    \A i \in 1..Len(tasks) : tasks[i].id < nextId

C3_Witness ==
    /\ last.op = "load"
    /\ Len(tasks) >= 2
    /\ nextId < last.before.nextId

\* C4: the ids the adds of one page session assign are strictly increasing,
\* and the first of them is 1 when the page load found no task and the
\* greatest loaded id + 1 when it found some.
C4_IdsIncrease ==
    /\ \A i, j \in 1..Len(session.assigned) :
            i < j => session.assigned[i] < session.assigned[j]
    /\ session.assigned # <<>> => session.assigned[1] = session.loadedMax + 1
    /\ Added => /\ session.assigned # <<>>
                /\ last.id = session.assigned[Len(session.assigned)]
                /\ tasks # <<>>
                /\ tasks[Len(tasks)].id = last.id

\* Two adds after a page load that found tasks, with a delete in the session.
C4_Witness ==
    /\ session.loadedMax > 0
    /\ Len(session.assigned) >= 2
    /\ Len(tasks) < session.loadedMax + Len(session.assigned)

\* C5: addTask with text that is empty after trimming alerts and changes
\* neither the in-memory sequence, nor nextId, nor the slot.
C5_EmptyAddChangesNothing ==
    (last.op = "add" /\ \A k \in 1..Len(last.input) : last.input[k] \in WhiteSpace) =>
        /\ last.alerted
        /\ tasks = last.before.tasks
        /\ nextId = last.before.nextId
        /\ localStorage = last.before.localStorage

\* A whitespace-only input rejected on a store that holds tasks.
C5_Witness ==
    /\ last.op = "add"
    /\ last.alerted
    /\ last.input # <<>>
    /\ tasks # <<>>

\* C6: a page load of a slot that holds the saved sequence S yields the
\* in-memory sequence S: same items, same order, same id, text and completed.
C6_RoundTrip ==
    (last.op = "load" /\ last.before.localStorage = SaveTasks(last.before.tasks)) =>
        tasks = last.before.tasks

C6_Witness ==
    /\ last.op = "load"
    /\ last.before.localStorage = SaveTasks(last.before.tasks)
    /\ Len(tasks) >= 2
    /\ \E i \in 1..Len(tasks) : tasks[i].completed
    /\ \E i \in 1..Len(tasks) : QUOTE \in {tasks[i].text[k] : k \in 1..Len(tasks[i].text)}

\* C7: after the page load the store reflects the slot: an absent slot gives
\* the empty sequence and nextId = 1; a saved sequence replaces the in-memory
\* sequence, with nextId = its greatest id + 1, or 1 when it is empty.
C7_BootReflectsSlot ==
    last.op = "load" =>
        IF ~localStorage.present
        THEN tasks = <<>> /\ nextId = 1
        ELSE LET saved == JSONParse(localStorage.value) IN
             /\ saved.ok
             /\ tasks = saved.value
             /\ saved.value = <<>> => nextId = 1
             /\ saved.value # <<>> =>
                    /\ \E i \in 1..Len(saved.value) : nextId = saved.value[i].id + 1
                    /\ \A i \in 1..Len(saved.value) : saved.value[i].id < nextId

\* A page load of a saved sequence whose first id is not its greatest.
C7_Witness ==
    /\ last.op = "load"
    /\ localStorage.present
    /\ Len(tasks) >= 2
    /\ nextId > Len(tasks) + 1

\* C8: toggleTask(id) twice in a row, with id in the store, restores the
\* in-memory sequence (so the item's completed flag) and the slot to what they
\* were before the first toggle.
C8_ToggleTwice ==
    [][ (ToggledHit /\ last'.op = "toggle" /\ last'.id = last.id) =>
            /\ tasks' = last.before.tasks
            /\ localStorage' = last.before.localStorage ]_vars

C8_Witness ==
    /\ ToggledHit
    /\ again
    /\ Len(tasks) >= 2
    /\ tasks = last.before.tasks
       \/ \E i \in 1..Len(tasks) : tasks[i].completed # last.before.tasks[i].completed

\* C9: deleteTask(id) is idempotent: for any store and any id, deleteTask(id)
\* right after deleteTask(id) leaves the in-memory sequence as the first left it.
C9_DeleteIdempotent ==
    [][ (last.op = "delete" /\ last'.op = "delete" /\ last'.id = last.id) =>
            tasks' = tasks ]_vars

\* The second of two deleteTask(id) in a row, on a store that still holds tasks.
C9_Witness ==
    /\ last.op = "delete"
    /\ again
    /\ tasks # <<>>
    /\ tasks = last.before.tasks

\* C10: deleteTask(id) removes exactly the items with that id: the others stay,
\* unmodified and in their order, and nextId is unchanged; no operation but
\* addTask increases nextId.
C10_DeleteFrame ==
    LET old == last.before.tasks
        kept == {i \in 1..Len(old) : old[i].id # last.id}
    IN  /\ last.op = "delete" =>
            /\ Len(tasks) = Cardinality(kept)
            /\ \A i \in kept : tasks[Cardinality({j \in kept : j <= i})] = old[i]
            /\ nextId = last.before.nextId
        /\ last.op # "add" => nextId <= last.before.nextId

\* The middle one of three tasks deleted.
C10_Witness ==
    /\ last.op = "delete"
    /\ Len(last.before.tasks) = 3
    /\ last.id = last.before.tasks[2].id
    /\ Len(tasks) = 2

\* The rows, in order, carry the ids, texts and completed flags of ts.
RowsMatch(rows, ts) ==
    /\ Len(rows) = Len(ts)
    /\ \A i \in 1..Len(ts) :
        /\ rows[i].toggleId = ts[i].id
        /\ rows[i].deleteId = ts[i].id
        /\ rows[i].text = ts[i].text
        /\ rows[i].checked = ts[i].completed
        /\ rows[i].completedClass = ts[i].completed

\* C11: in every state between two events, right after the page load included,
\* the rendered rows carry in order the ids, texts and completed flags of the
\* in-memory sequence; once the page has written the slot it holds a saved
\* sequence, and a slot that holds a saved sequence holds the in-memory one.
C11_NeverDiverge ==
    /\ RowsMatch(taskList, tasks)
    /\ trace.writer = "page" =>
            /\ localStorage.present
            /\ JSONParse(localStorage.value).ok
    /\ (localStorage.present /\ JSONParse(localStorage.value).ok) =>
            JSONParse(localStorage.value).value = tasks

\* Rows left after a delete, one checked and one not.
C11_Witness ==
    /\ last.op = "delete"
    /\ Len(taskList) = 2
    /\ taskList[1].checked # taskList[2].checked

\* C12: no tab's handler changes the tasks or the nextId of the other tab, and
\* after any interleaving the slot holds the in-memory sequence of the tab that
\* wrote last.
C12_LastWriterWins ==
    /\ [](trace.writer \in TabIds =>
            /\ localStorage.present
            /\ JSONParse(localStorage.value).ok
            /\ JSONParse(localStorage.value).value = tabs[trace.writer].tasks)
    /\ [][\A t \in TabIds :
            trace'.actor # t =>
                /\ tabs'[t].tasks = tabs[t].tasks
                /\ tabs'[t].nextId = tabs[t].nextId]_vars

\* The slot holds the writer's sequence and has lost an item the other tab
\* added and still holds in memory.
C12_Witness ==
    /\ trace.writer \in TabIds
    /\ \E t \in TabIds \ {trace.writer} :
         \E id \in IdsOf(tabs[t].tasks) :
            /\ id \notin IdsOf(JSONParse(localStorage.value).value)
            /\ id \notin IdsOf(tabs[trace.writer].tasks)
            /\ tabs[t].nextId > id
            /\ tabs[trace.writer].tasks # <<>>

\* C13: whatever the slot holds when the page loads, tasks is a sequence after
\* the load, and every later addTask, toggleTask and deleteTask completes.
C13_NeverFatal ==
    /\ tasksIsArray
    /\ last.op \in {"add", "toggle", "delete"} => ~trace.threw

\* t is v without its leading and trailing white space.
IsTrimOf(t, v) ==
    /\ t # <<>>
    /\ t[1] \notin WhiteSpace
    /\ t[Len(t)] \notin WhiteSpace
    /\ \E a \in 0..(Len(v) - Len(t)) :
        /\ SubSeq(v, a + 1, a + Len(t)) = t
        /\ \A k \in 1..a : v[k] \in WhiteSpace
        /\ \A k \in (a + Len(t) + 1)..Len(v) : v[k] \in WhiteSpace

\* C14: addTask with text that is not empty after trimming appends exactly one
\* item {id: nextId before the call, text: the trimmed input, completed: false},
\* increases nextId by 1 and leaves the items before it as they were; on the
\* store of a first page load it gives [{id: 1, text, completed: false}], which
\* the slot then holds.
C14_AddAppends ==
    Added =>
        LET old == last.before.tasks
            new == tasks[Len(tasks)]
        IN  /\ Len(tasks) = Len(old) + 1
            /\ \A i \in 1..Len(old) : tasks[i] = old[i]
            /\ new.id = last.before.nextId
            /\ new.completed = FALSE
            /\ IsTrimOf(new.text, last.input)
            /\ nextId = last.before.nextId + 1
            /\ (old = <<>> /\ last.before.nextId = 1) =>
                    /\ tasks = <<[id |-> 1, text |-> new.text, completed |-> FALSE]>>
                    /\ localStorage.present
                    /\ JSONParse(localStorage.value).value = tasks

\* An add behind two older items, one of them completed.
C14_Witness ==
    /\ Added
    /\ Len(tasks) = 3
    /\ tasks[1].completed \/ tasks[2].completed
    /\ Len(last.input) > Len(tasks[3].text)

\* C15: toggleTask(id) and deleteTask(id) with an id that is not in the store
\* leave the in-memory sequence, nextId and the slot as they were, without error.
C15_MissIsNoOp ==
    (last.op \in {"toggle", "delete"} /\ last.id \notin IdsOf(last.before.tasks)) =>
        /\ tasks = last.before.tasks
        /\ nextId = last.before.nextId
        /\ localStorage = last.before.localStorage
        /\ ~trace.threw

\* C16: every rendered row's toggle and delete listener carries an id that is
\* in the in-memory sequence, so no click leads to a lookup miss.
C16_NoMissFromRows ==
    \A i \in DOMAIN taskList :
        /\ taskList[i].toggleId \in IdsOf(tasks)
        /\ taskList[i].deleteId \in IdsOf(tasks)

\* Rows left after a delete that removed an item.
C16_Witness ==
    /\ last.op = "delete"
    /\ last.id \in IdsOf(last.before.tasks)
    /\ Len(taskList) >= 1
    /\ trace.writer = "page"

\* C17: toggleTask(id) with id in the store flips the completed flag of the
\* item with that id and nothing else: length, order, ids, texts, the other
\* items' flags and nextId stay.
C17_ToggleFrame ==
    (last.op = "toggle" /\ last.id \in IdsOf(last.before.tasks)) =>
        LET old == last.before.tasks IN
        /\ Len(tasks) = Len(old)
        /\ \A i \in 1..Len(old) :
            /\ tasks[i].id = old[i].id
            /\ tasks[i].text = old[i].text
            /\ (tasks[i].completed # old[i].completed) <=> (old[i].id = last.id)
        /\ nextId = last.before.nextId

\* The second of two items toggled, its id not its position.
C17_Witness ==
    /\ last.op = "toggle"
    /\ Len(tasks) = 2
    /\ last.id = tasks[2].id
    /\ last.id # 2
    /\ tasks[2].completed # last.before.tasks[2].completed

\* C18: every item in the store has a text that is not empty and has no
\* leading or trailing white space.
C18_TextsTrimmed ==
    \A i \in 1..Len(tasks) :
        /\ tasks[i].text # <<>>
        /\ tasks[i].text[1] \notin WhiteSpace
        /\ tasks[i].text[Len(tasks[i].text)] \notin WhiteSpace

\* Items typed with white space around them, back in the store after a page load.
C18_Witness ==
    /\ last.op = "load"
    /\ Len(tasks) >= 2
    /\ \E k \in 1..Len(tasks[1].text) : tasks[1].text[k] \in WhiteSpace

\* C19: between two page loads nextId never decreases, and no id is assigned
\* by two adds, also when the item that had it first was deleted.
C19_NoIdReuseInSession ==
    /\ last.op # "load" => nextId >= last.before.nextId
    /\ \A i, j \in 1..Len(session.assigned) :
            i # j => session.assigned[i] # session.assigned[j]
    /\ \A i \in 1..Len(session.assigned) : session.assigned[i] < nextId

\* An add after the item of an earlier add of the session was deleted.
C19_Witness ==
    /\ Added
    /\ Len(session.assigned) >= 2
    /\ session.assigned[Len(session.assigned) - 1] \notin IdsOf(tasks)
    /\ \A id \in IdsOf(last.before.tasks) : id < session.assigned[Len(session.assigned) - 1]

====
